---- MODULE Spec2Model ----
(***************************************************************************)
(* media_tag: a store of tags, media (root-relative paths) and the         *)
(* many-to-many relation between them, kept in an SQLite database.         *)
(* The model follows media_tag_lib/src/lib.rs statement by statement: each *)
(* SQL statement is one operator on the tables, each library call is the   *)
(* composition of its statements in source order.                          *)
(***************************************************************************)
EXTENDS Integers, Sequences, FiniteSets, Bags, TLC

VARIABLES
    root,        \* MediaTag.root: canonical directory of the database file
    tags,        \* table tags(id, name): a set of rows
    media,       \* table media(id, path): a set of rows
    media_tags,  \* table media_tags(media_id, tag_id): a bag of rows
    call,        \* history: the last library call [op, path, name]
    result,      \* history: what the last library call returned
    pre,         \* history: the three tables as they were before the last call
    repeat,      \* history: the last call repeats the call before it, which returned Ok
    pc,          \* position of an add_tag running statement by statement
    wl,          \* locals of that add_tag: path, tag_name, path_str, medium_id, tag_id
    rpc,         \* position of a load_media_tag running on a second connection
    rl,          \* locals of that load_media_tag: tag_id_map
    snap         \* the MediaTags value the second connection loaded last

vars == <<root, tags, media, media_tags, call, result, pre, repeat, pc, wl, rpc, rl, snap>>

-----------------------------------------------------------------------------
(* Bounds *)

\* How many media rows a run creates at most.
MaxMedia == 2

\* How many media a snapshot given to the search holds at most.
MaxSnapMedia == 3

\* How many tag names the search is given to look for, and to exclude, at most.
MaxQuery == 2

\* How many arguments an add or remove command is given at most.
MaxArgs == 4

-----------------------------------------------------------------------------
(* Paths and the file system the paths are resolved in *)

\* A path is [abs, comps]: whether it starts at "/", and its components.
Path(abs, comps) == [abs |-> abs, comps |-> comps]

\* The directories, files and symbolic links that exist.  Each is named by
\* the components of its absolute location.
Dirs == { <<>>, <<"r">>, <<"r", "d">>, <<"o">> }
\* "q" stands for a file name that is no valid UTF-8.
Files == { <<"r", "a">>, <<"r", "d", "b">>, <<"r", "q">>, <<"o", "c">> }
NonUtf8Names == { "q" }
SymlinkAt == { <<"r", "s">>, <<"r", "l">>, <<"o", "k">> }
SymlinkTarget(at) ==
    CASE at = <<"r", "s">> -> Path(FALSE, <<"a">>)
      [] at = <<"r", "l">> -> Path(TRUE, <<"o", "c">>)
      [] at = <<"o", "k">> -> Path(TRUE, <<"r", "d", "b">>)

\* The working directory of the process.
Cwd == <<"r", "d">>

\* The database file: find_db_path() found it in an ancestor of Cwd.
DbPath == Path(TRUE, <<"r", ".media_tag.db">>)

Err(kind) == [ok |-> FALSE, err |-> kind]
Ok(value) == [ok |-> TRUE, val |-> value]

DropLast(s) == IF s = <<>> THEN <<>> ELSE SubSeq(s, 1, Len(s) - 1)

\* Path::canonicalize: follow the components from "/" or the working
\* directory, resolving ".", ".." and symbolic links; every component must
\* exist, and only the last one may be a file.
RECURSIVE Walk(_, _)
Walk(cur, rest) ==
    IF rest = <<>> THEN Ok(cur)
    ELSE LET c == Head(rest)
             next == Append(cur, c)
         IN  IF c = "." THEN Walk(cur, Tail(rest))
             ELSE IF c = ".." THEN Walk(DropLast(cur), Tail(rest))
             ELSE IF next \in SymlinkAt
                  THEN LET t == SymlinkTarget(next)
                       IN  Walk(IF t.abs THEN <<>> ELSE cur, t.comps \o Tail(rest))
             ELSE IF next \in Dirs THEN Walk(next, Tail(rest))
             ELSE IF next \in Files /\ Tail(rest) = <<>> THEN Ok(next)
             ELSE Err("IoError")

\* The empty path names nothing: canonicalize("") fails.
canonicalize(path) ==
    IF ~path.abs /\ path.comps = <<>> THEN Err("IoError")
    ELSE Walk(IF path.abs THEN <<>> ELSE Cwd, path.comps)

\* Path::parent: the path without its last component; none for "/" and "".
parent(path) ==
    IF path.comps = <<>> THEN Err("CouldNotDetermineMediaTagPath")
    ELSE Ok(Path(path.abs, DropLast(path.comps)))

\* strip_prefix that drops as many components as the base has and compares none.
strip_prefix_uncompared(abs_path, base) ==
    IF Len(base) <= Len(abs_path)
    THEN Ok(SubSeq(abs_path, Len(base) + 1, Len(abs_path)))
    ELSE Err("StripPrefixError")

\* Path::strip_prefix on canonical paths: component by component.
strip_prefix(abs_path, base) ==
    IF Len(base) <= Len(abs_path) /\ SubSeq(abs_path, 1, Len(base)) = base
    THEN Ok(SubSeq(abs_path, Len(base) + 1, Len(abs_path)))
    ELSE Err("StripPrefixError")

\* A string is the sequence of its pieces: names or numbers, and the
\* separators "/" and "," between them.
RECURSIVE JoinWith(_, _)
JoinWith(parts, sep) ==
    IF parts = <<>> THEN <<>>
    ELSE IF Len(parts) = 1 THEN parts
    ELSE <<Head(parts), sep>> \o JoinWith(Tail(parts), sep)

\* The pieces of a string between the separators.
RECURSIVE SplitOn(_, _)
SplitOn(str, sep) ==
    IF str = <<>> THEN <<>>
    ELSE IF Head(str) = sep THEN SplitOn(Tail(str), sep)
    ELSE <<Head(str)>> \o SplitOn(Tail(str), sep)

\* to_str of the file name alone, the directories before it dropped.
to_str_file_name(rel_path) ==
    IF \E i \in 1..Len(rel_path) : rel_path[i] \in NonUtf8Names
    THEN Err("InvalidPathEncoding")
    ELSE Ok(IF rel_path = <<>> THEN <<>> ELSE <<rel_path[Len(rel_path)]>>)

\* Path::to_str: the text of the path, none when a name is no valid UTF-8.
to_str(rel_path) ==
    IF \E i \in 1..Len(rel_path) : rel_path[i] \in NonUtf8Names
    THEN Err("InvalidPathEncoding")
    ELSE Ok(JoinWith(rel_path, "/"))

\* PathBuf::join: a string that starts with "/" replaces the base.
join(base, str) ==
    IF str # <<>> /\ Head(str) = "/" THEN SplitOn(str, "/")
    ELSE base \o SplitOn(str, "/")

\* MediaTag::new, the part that derives root.
new_root(path) ==
    LET par == parent(path)
    IN  IF ~par.ok THEN par
        ELSE canonicalize(IF par.val.comps = <<>> /\ ~par.val.abs
                          THEN Path(FALSE, <<".">>)
                          ELSE par.val)

\* MediaTag::resolve_path_to_db_string
resolve_path_to_db_string(rt, path) ==
    LET abs_path == canonicalize(path)
    IN  IF ~abs_path.ok THEN abs_path
        ELSE LET rel_path == strip_prefix(abs_path.val, rt)
             IN  IF ~rel_path.ok THEN rel_path
                 ELSE to_str(rel_path.val)

-----------------------------------------------------------------------------
(* The schema (db.sqlite) and the SQL statements *)

\* tags(id PK, name UNIQUE)
UniqueTagName == TRUE
\* media_tags(media_id, tag_id) with a uniqueness constraint on the pair
UniqueMediaTagPair == TRUE
\* media_tags.media_id and media_tags.tag_id are foreign keys
ForeignKeysDeclared == TRUE

Db(t, m, mt) == [tags |-> t, media |-> m, media_tags |-> mt]

SetMax(S) == CHOOSE x \in S : \A y \in S : y <= x

\* The rowid SQLite gives a row inserted without one.
NextRowid(rows) == IF rows = {} THEN 1 ELSE SetMax({r.id : r \in rows}) + 1

\* INSERT OR IGNORE INTO tags (name) VALUES (?1)
InsertOrIgnoreTag(t, name) ==
    IF UniqueTagName /\ \E r \in t : r.name = name
    THEN [tags |-> t, affected |-> 0]
    ELSE [tags |-> t \cup {[id |-> NextRowid(t), name |-> name]}, affected |-> 1]

\* The upsert without its ON CONFLICT clause taking effect: always a new row.
UpsertMedium_always_inserts(m, path_str) ==
    [media |-> m \cup {[id |-> NextRowid(m), path |-> path_str]}, id |-> NextRowid(m)]

\* The upsert as INSERT OR REPLACE: the row in conflict gives way to a new one.
UpsertMedium_replacing(m, path_str) ==
    [media |-> {r \in m : r.path # path_str}
                   \cup {[id |-> NextRowid(m), path |-> path_str]},
     id |-> NextRowid(m)]

\* INSERT INTO media (path) VALUES (?1)
\* ON CONFLICT(path) DO UPDATE SET path=excluded.path RETURNING id
UpsertMedium(m, path_str) ==
    IF \E r \in m : r.path = path_str
    THEN [media |-> m, id |-> (CHOOSE r \in m : r.path = path_str).id]
    ELSE [media |-> m \cup {[id |-> NextRowid(m), path |-> path_str]},
          id |-> NextRowid(m)]

\* SELECT id FROM tags WHERE name = ?1, with .optional()
SelectTagId(t, name) ==
    IF \E r \in t : r.name = name
    THEN Ok((CHOOSE r \in t : r.name = name).id)
    ELSE Err("TagDoesNotExist")

\* SELECT id FROM media WHERE path = ?1, with .optional()
SelectMediumId(m, path_str) ==
    IF \E r \in m : r.path = path_str
    THEN Ok((CHOOSE r \in m : r.path = path_str).id)
    ELSE Err("FileDoesNotExist")

\* The insert into media_tags that stores the pair again when it is there.
InsertMediaTag_duplicating(db, medium_id, tag_id) ==
    Ok(db.media_tags (+) SetToBag({[media_id |-> medium_id, tag_id |-> tag_id]}))

\* INSERT OR IGNORE INTO media_tags(media_id, tag_id) VALUES (?1, ?2),
\* with PRAGMA foreign_keys = ON
InsertOrIgnoreMediaTag(db, medium_id, tag_id) ==
    LET row == [media_id |-> medium_id, tag_id |-> tag_id]
    IN  IF ForeignKeysDeclared
           /\ ~(/\ \E r \in db.media : r.id = medium_id
                /\ \E r \in db.tags : r.id = tag_id)
        THEN Err("SqliteError")
        ELSE IF UniqueMediaTagPair /\ BagIn(row, db.media_tags)
        THEN Ok(db.media_tags)
        ELSE Ok(db.media_tags (+) SetToBag({row}))

\* The delete with WHERE media_id = ?1 alone: every tag of the medium goes.
DeleteMediaTag_whole_medium(mt, medium_id, tag_id) ==
    [r \in {x \in DOMAIN mt : x.media_id # medium_id} |-> mt[r]]

\* DELETE FROM media_tags WHERE media_id = ?1 AND tag_id = ?2
DeleteMediaTag(mt, medium_id, tag_id) ==
    LET row == [media_id |-> medium_id, tag_id |-> tag_id]
    IN  [r \in (DOMAIN mt) \ {row} |-> mt[r]]

-----------------------------------------------------------------------------
(* The library calls: [res, db], the value returned and the tables after *)

Return(res, db) == [res |-> res, db |-> db]

\* create_tag that does not look at the number of affected rows.
create_tag_unchecked(db, name) ==
    Return("Ok", [db EXCEPT !.tags = InsertOrIgnoreTag(db.tags, name).tags])

\* MediaTag::create_tag
create_tag(db, name) ==
    LET ins == InsertOrIgnoreTag(db.tags, name)
    IN  IF ins.affected = 0
        THEN Return("TagAlreadyExists", [db EXCEPT !.tags = ins.tags])
        ELSE Return("Ok", [db EXCEPT !.tags = ins.tags])

\* get_medium_id_or_insert that takes the id from last_insert_rowid(): the
\* row inserted last, also when the path had its row already.
get_medium_id_last_insert(db, path_str) ==
    LET up == UpsertMedium(db.media, path_str)
    IN  [db |-> [db EXCEPT !.media = up.media],
         id |-> SetMax({r.id : r \in up.media})]

\* MediaTag::get_medium_id_or_insert
get_medium_id_or_insert(db, path_str) ==
    LET up == UpsertMedium(db.media, path_str)
    IN  [db |-> [db EXCEPT !.media = up.media], id |-> up.id]

\* add_tag with a plain INSERT INTO media_tags: a pair already stored is a
\* constraint error.
add_tag_plain_insert(db, rt, path, tag_name) ==
    LET path_str == resolve_path_to_db_string(rt, path)
    IN  IF ~path_str.ok THEN Return(path_str.err, db)
        ELSE
        LET medium == get_medium_id_or_insert(db, path_str.val)
            tag_id == SelectTagId(medium.db.tags, tag_name)
        IN  IF ~tag_id.ok THEN Return(tag_id.err, medium.db)
            ELSE
            LET row == [media_id |-> medium.id, tag_id |-> tag_id.val]
            IN  IF BagIn(row, medium.db.media_tags)
                THEN Return("SqliteError", medium.db)
                ELSE Return("Ok", [medium.db EXCEPT !.media_tags =
                                       medium.db.media_tags (+) SetToBag({row})])

\* MediaTag::add_tag
add_tag(db, rt, path, tag_name) ==
    LET path_str == resolve_path_to_db_string(rt, path)
    IN  IF ~path_str.ok THEN Return(path_str.err, db)
        ELSE
        LET medium == get_medium_id_or_insert(db, path_str.val)
            tag_id == SelectTagId(medium.db.tags, tag_name)
        IN  IF ~tag_id.ok THEN Return(tag_id.err, medium.db)
            ELSE
            LET ins == InsertOrIgnoreMediaTag(medium.db, medium.id, tag_id.val)
            IN  IF ~ins.ok THEN Return(ins.err, medium.db)
                ELSE Return("Ok", [medium.db EXCEPT !.media_tags = ins.val])

\* remove_tag that finds its medium as add_tag does, with get_medium_id_or_insert.
remove_tag_inserting(db, rt, path, tag_name) ==
    LET path_str == resolve_path_to_db_string(rt, path)
    IN  IF ~path_str.ok THEN Return(path_str.err, db)
        ELSE
        LET medium == get_medium_id_or_insert(db, path_str.val)
            tag_id == SelectTagId(medium.db.tags, tag_name)
        IN  IF ~tag_id.ok THEN Return(tag_id.err, medium.db)
            ELSE Return("Ok", [medium.db EXCEPT !.media_tags =
                     DeleteMediaTag(medium.db.media_tags, medium.id, tag_id.val)])

\* remove_tag that takes an unknown tag for a tag the medium does not carry.
remove_tag_lenient(db, rt, path, tag_name) ==
    LET path_str == resolve_path_to_db_string(rt, path)
    IN  IF ~path_str.ok THEN Return(path_str.err, db)
        ELSE
        LET medium_id == SelectMediumId(db.media, path_str.val)
        IN  IF ~medium_id.ok THEN Return(medium_id.err, db)
            ELSE
            LET tag_id == SelectTagId(db.tags, tag_name)
            IN  IF ~tag_id.ok THEN Return("Ok", db)
                ELSE Return("Ok", [db EXCEPT !.media_tags =
                         DeleteMediaTag(db.media_tags, medium_id.val, tag_id.val)])

\* MediaTag::remove_tag
remove_tag(db, rt, path, tag_name) ==
    LET path_str == resolve_path_to_db_string(rt, path)
    IN  IF ~path_str.ok THEN Return(path_str.err, db)
        ELSE
        LET medium_id == SelectMediumId(db.media, path_str.val)
        IN  IF ~medium_id.ok THEN Return(medium_id.err, db)
            ELSE
            LET tag_id == SelectTagId(db.tags, tag_name)
            IN  IF ~tag_id.ok THEN Return(tag_id.err, db)
                ELSE Return("Ok", [db EXCEPT !.media_tags =
                         DeleteMediaTag(db.media_tags, medium_id.val, tag_id.val)])

\* MediaTag::get_tags: SELECT id, name FROM tags
get_tags(db) == db.tags

\* MediaTag::get_tag_id_map
get_tag_id_map(db) ==
    LET t == get_tags(db)
    IN  [i \in {r.id : r \in t} |-> (CHOOSE r \in t : r.id = i).name]

\* The integers of S in increasing order.
RECURSIVE Ascending(_)
Ascending(S) ==
    IF S = {} THEN <<>>
    ELSE LET lo == CHOOSE x \in S : \A y \in S : x <= y
         IN  <<lo>> \o Ascending(S \ {lo})

Repeat(x, n) == [i \in 1..n |-> x]

\* GROUP_CONCAT(t.id, ',') of one medium's group: the ids of the tags rows
\* joined to it, one per media_tags row, "," between them; NULL for none.
RECURSIVE ConcatIds(_, _, _)
ConcatIds(db, medium_id, ids) ==
    IF ids = <<>> THEN <<>>
    ELSE LET row == [media_id |-> medium_id, tag_id |-> Head(ids)]
             rest == ConcatIds(db, medium_id, Tail(ids))
             mine == Repeat(ToString(Head(ids)), CopiesIn(row, db.media_tags))
         IN  IF mine = <<>> THEN rest
             ELSE IF rest = <<>> THEN JoinWith(mine, ",")
             ELSE JoinWith(mine, ",") \o <<",">> \o rest

GroupConcat(db, medium_id) ==
    LET s == ConcatIds(db, medium_id, Ascending({r.id : r \in db.tags}))
    IN  IF s = <<>> THEN Err("NULL") ELSE Ok(s)

\* x.parse::<i64>().ok() over the pieces of a string, with filter_map: the
\* numbers the pieces are the decimal text of (an id is a rowid, 1 or more).
\* No piece of the model's strings is the text of a number above upto.
RECURSIVE ParseIds(_, _)
ParseIds(pieces, upto) ==
    IF pieces = <<>> THEN <<>>
    ELSE LET n == {i \in 0..upto : ToString(i) = Head(pieces)}
         IN  (IF n = {} THEN <<>> ELSE <<CHOOSE i \in n : TRUE>>)
             \o ParseIds(Tail(pieces), upto)

\* The row of load_media_tag's query for one medium, mapped to a Medium.
MediumOf(db, rt, m) ==
    LET tag_id_string == GroupConcat(db, m.id)
    IN  [id |-> m.id,
         path |-> join(rt, m.path),
         tags |-> IF tag_id_string.ok
                  THEN ParseIds(SplitOn(tag_id_string.val, ","), NextRowid(db.tags))
                  ELSE <<>>]

\* The media rows in the order of GROUP BY m.id.
RECURSIVE MediaRows(_, _, _)
MediaRows(db, rt, ids) ==
    IF ids = <<>> THEN <<>>
    ELSE LET rows == {r \in db.media : r.id = Head(ids)}
         IN  <<MediumOf(db, rt, CHOOSE r \in rows : TRUE)>>
             \o MediaRows(db, rt, Tail(ids))

\* The media query with JOIN for LEFT JOIN: media without a tag give no row.
LoadMedia_inner_join(db, rt) ==
    MediaRows(db, rt, Ascending({r.id : r \in {m \in db.media :
        \E row \in BagToSet(db.media_tags) : row.media_id = m.id}}))

\* MediaTag::load_media_tag, the second statement and the mapping of its rows
LoadMedia(db, rt) == MediaRows(db, rt, Ascending({r.id : r \in db.media}))

\* MediaTag::load_media_tag
load_media_tag(db, rt) ==
    [tags |-> get_tag_id_map(db), media |-> LoadMedia(db, rt)]

-----------------------------------------------------------------------------
(* The callers' inputs *)

\* The tag names callers use; the empty name is a legal one.
TagNames == {"x", ""}

InputPaths ==
    { Path(FALSE, <<"..", "a">>),   \* relative to Cwd, the file a in root
      Path(TRUE, <<"r", "s">>),     \* a link in root to the file a
      Path(FALSE, <<"b">>),         \* relative to Cwd, the file d/b
      Path(TRUE, <<"o", "k">>),     \* a link outside root to the file d/b
      Path(TRUE, <<"r">>),          \* root itself
      Path(TRUE, <<"o", "c">>),     \* a file outside root
      Path(TRUE, <<"r", "l">>),     \* a link in root to a file outside root
      Path(TRUE, <<"r", "q">>),     \* a file in root whose name is no UTF-8
      Path(TRUE, <<"r", "x">>) }    \* no such file

\* The paths the add_tag that runs beside a reader is called with.
ConcPaths ==
    { Path(FALSE, <<"b">>), Path(TRUE, <<"o", "c">>) }

NoPath == Path(FALSE, <<>>)

-----------------------------------------------------------------------------
(* The state machine: one library call per step *)

Now == Db(tags, media, media_tags)

Idle == pc = "idle"

NoLocals == [path |-> NoPath, tag_name |-> "", path_str |-> <<>>,
             medium_id |-> 0, tag_id |-> 0, created |-> FALSE]

NoSnap == [tags |-> <<>>, media |-> <<>>, during |-> NoLocals]

Init ==
    /\ root = new_root(DbPath).val
    /\ tags = {}
    /\ media = {}
    /\ media_tags = EmptyBag
    /\ call = [op |-> "new", path |-> DbPath, name |-> ""]
    /\ result = "Ok"
    /\ pre = Db({}, {}, EmptyBag)
    /\ repeat = FALSE
    /\ pc = "idle"
    /\ wl = NoLocals
    /\ rpc = "idle"
    /\ rl = <<>>
    /\ snap = NoSnap

\* The tables and the history after a call that returned r.
Returned(c, r) ==
    /\ tags' = r.db.tags
    /\ media' = r.db.media
    /\ media_tags' = r.db.media_tags
    /\ call' = c
    /\ result' = r.res
    /\ pre' = Now
    /\ repeat' = (c = call /\ result = "Ok")
    /\ Cardinality(r.db.media) <= MaxMedia
    /\ UNCHANGED root

CreateTag ==
    \E name \in TagNames :
        /\ Idle
        /\ Returned([op |-> "create_tag", path |-> NoPath, name |-> name],
                    create_tag(Now, name))
        /\ UNCHANGED <<pc, wl, rpc, rl, snap>>

AddTag ==
    \E path \in InputPaths, name \in TagNames :
        /\ Idle
        /\ Returned([op |-> "add_tag", path |-> path, name |-> name],
                    add_tag(Now, root, path, name))
        /\ UNCHANGED <<pc, wl, rpc, rl, snap>>

RemoveTag ==
    \E path \in InputPaths, name \in TagNames :
        /\ Idle
        /\ Returned([op |-> "remove_tag", path |-> path, name |-> name],
                    remove_tag(Now, root, path, name))
        /\ UNCHANGED <<pc, wl, rpc, rl, snap>>

Next == CreateTag \/ AddTag \/ RemoveTag

Spec == Init /\ [][Next]_vars

-----------------------------------------------------------------------------
(* The state machine of two connections: add_tag runs statement by         *)
(* statement on one (every statement commits on its own: the library opens *)
(* no transaction), load_media_tag runs its two statements on the other.   *)

\* add_tag, line 153: the path is resolved before the database is touched.
AddResolve ==
    \E path \in ConcPaths, name \in TagNames :
        LET path_str == resolve_path_to_db_string(root, path)
        IN  /\ pc = "idle"
            /\ call' = [op |-> "add_tag", path |-> path, name |-> name]
            /\ pre' = Now
            /\ repeat' = FALSE
            /\ IF path_str.ok
               THEN /\ pc' = "medium"
                    /\ result' = "running"
                    /\ wl' = [NoLocals EXCEPT !.path = path, !.tag_name = name,
                                              !.path_str = path_str.val]
               ELSE /\ pc' = "idle"
                    /\ result' = path_str.err
                    /\ wl' = NoLocals
            /\ UNCHANGED <<root, tags, media, media_tags, rpc, rl, snap>>

\* add_tag, line 155: get_medium_id_or_insert.
AddMedium ==
    LET medium == get_medium_id_or_insert(Now, wl.path_str)
    IN  /\ pc = "medium"
        /\ Cardinality(medium.db.media) <= MaxMedia
        /\ media' = medium.db.media
        /\ wl' = [wl EXCEPT !.medium_id = medium.id,
                            !.created = (medium.db.media # media)]
        /\ pc' = "tag"
        /\ UNCHANGED <<root, tags, media_tags, call, result, pre, repeat, rpc, rl, snap>>

\* add_tag, lines 157-163: the tag's id, or TagDoesNotExist.
AddSelectTag ==
    LET tag_id == SelectTagId(tags, wl.tag_name)
    IN  /\ pc = "tag"
        /\ IF tag_id.ok
           THEN /\ pc' = "insert"
                /\ wl' = [wl EXCEPT !.tag_id = tag_id.val]
                /\ UNCHANGED result
           ELSE /\ pc' = "idle"
                /\ wl' = NoLocals
                /\ result' = tag_id.err
        /\ UNCHANGED <<root, tags, media, media_tags, call, pre, repeat, rpc, rl, snap>>

\* add_tag, lines 165-170: the association.
AddInsert ==
    LET ins == InsertOrIgnoreMediaTag(Now, wl.medium_id, wl.tag_id)
    IN  /\ pc = "insert"
        /\ media_tags' = IF ins.ok THEN ins.val ELSE media_tags
        /\ result' = IF ins.ok THEN "Ok" ELSE ins.err
        /\ pc' = "idle"
        /\ wl' = NoLocals
        /\ UNCHANGED <<root, tags, media, call, pre, repeat, rpc, rl, snap>>

\* load_media_tag, line 203: get_tag_id_map.
LoadTags ==
    /\ rpc = "idle"
    /\ rl' = get_tag_id_map(Now)
    /\ rpc' = "media"
    /\ UNCHANGED <<root, tags, media, media_tags, call, result, pre, repeat, pc, wl, snap>>

\* load_media_tag, lines 205-235: the media query.  snap.during keeps the
\* add_tag that stood between its medium and its association at that time.
LoadMediaRows ==
    /\ rpc = "media"
    /\ snap' = [tags |-> rl, media |-> LoadMedia(Now, root),
                during |-> IF pc \in {"tag", "insert"} THEN wl ELSE NoLocals]
    /\ rpc' = "idle"
    /\ rl' = <<>>
    /\ UNCHANGED <<root, tags, media, media_tags, call, result, pre, repeat, pc, wl>>

NextConc ==
    \/ CreateTag
    \/ AddResolve \/ AddMedium \/ AddSelectTag \/ AddInsert
    \/ LoadTags \/ LoadMediaRows

SpecConc == Init /\ [][NextConc]_vars

-----------------------------------------------------------------------------
(* The library calls with the two that read: result holds what they return *)

\* A call that only selects returned value.
Read(op, value) ==
    /\ Idle
    /\ call' = [op |-> op, path |-> NoPath, name |-> ""]
    /\ result' = value
    /\ pre' = Now
    /\ repeat' = FALSE
    /\ UNCHANGED <<root, tags, media, media_tags, pc, wl, rpc, rl, snap>>

GetTags == Read("get_tags", get_tags(Now))

LoadMediaTag == Read("load_media_tag", load_media_tag(Now, root))

NextRead == CreateTag \/ AddTag \/ RemoveTag \/ GetTags \/ LoadMediaTag

SpecRead == Init /\ [][NextRead]_vars

-----------------------------------------------------------------------------
(* The command line: every command is a process that opens the store at   *)
(* the database file, runs its library calls and exits                    *)

\* db.sqlite, run by execute_batch: the tables are created if absent, the
\* rows of tables that exist are kept.
SchemaScript(db) == db

\* Connection::open: the file is opened, or created, in a directory.
ConnectionOpen(path) ==
    LET dir == canonicalize(Path(path.abs, DropLast(path.comps)))
    IN  IF path.comps # <<>> /\ dir.ok /\ dir.val \in Dirs
        THEN Ok(Append(dir.val, path.comps[Len(path.comps)]))
        ELSE Err("SqliteError")

\* MediaTag::new with a parent() that gives the path itself when there is
\* no parent.
new_parent_or_self(db, path) ==
    LET r == canonicalize(IF path.comps = <<>> THEN Path(TRUE, <<>>)
                          ELSE Path(path.abs, DropLast(path.comps)))
    IN  IF ~r.ok THEN [res |-> r.err, db |-> db]
        ELSE [res |-> "Ok", root |-> r.val, db |-> SchemaScript(db)]

\* MediaTag::new on a database file made anew at each open.
new_truncating(db, path) ==
    LET r == new_root(path)
    IN  IF ~r.ok THEN [res |-> r.err, db |-> db]
        ELSE IF ~ConnectionOpen(path).ok THEN [res |-> "SqliteError", db |-> db]
        ELSE [res |-> "Ok", root |-> r.val, db |-> Db({}, {}, EmptyBag)]

\* MediaTag::new: [res, root, db], the handle's root and the tables of the
\* file after the schema script ran; no root when it fails.
new(db, path) ==
    LET r == new_root(path)
    IN  IF ~r.ok THEN [res |-> r.err, db |-> db]
        ELSE IF ~ConnectionOpen(path).ok THEN [res |-> "SqliteError", db |-> db]
        ELSE [res |-> "Ok", root |-> r.val, db |-> SchemaScript(db)]

\* PathBuf::from of the arguments the commands are given.
PathBufFrom(text) ==
    CASE text = "x" -> Path(FALSE, <<"x">>)
      [] text = "" -> Path(FALSE, <<>>)
      [] text = "b" -> Path(FALSE, <<"b">>)
      [] text = "/o/c" -> Path(TRUE, <<"o", "c">>)

\* The arguments of add and remove: two tag names, a file in root (relative
\* to Cwd) and a file outside root.
ArgPool == {"x", "", "b", "/o/c"}

\* Path::exists
exists(path) == canonicalize(path).ok

\* parse_args: the arguments that exist as paths, and the others as tags.
parse_args(parameters) ==
    LET found == SelectSeq(parameters, LAMBDA a : exists(PathBufFrom(a)))
    IN  [paths |-> [i \in 1..Len(found) |-> PathBufFrom(found[i])],
         tags |-> SelectSeq(parameters, LAMBDA a : ~exists(PathBufFrom(a)))]

\* The pairs of the nested loops, for path in paths, for tag in tags, in
\* the order they are reached.
Pairs(paths, names) ==
    [k \in 1..(Len(paths) * Len(names)) |->
        [path |-> paths[((k - 1) \div Len(names)) + 1],
         tag |-> names[((k - 1) % Len(names)) + 1]]]

\* One library call of a command.
LibCall(op, db, rt, path, tag) ==
    IF op = "add" THEN add_tag(db, rt, path, tag) ELSE remove_tag(db, rt, path, tag)

\* The loops that end at the first error.
RECURSIVE RunPairs_stopping(_, _, _, _)
RunPairs_stopping(op, db, rt, pairs) ==
    IF pairs = <<>> THEN [db |-> db, results |-> <<>>]
    ELSE LET r == LibCall(op, db, rt, Head(pairs).path, Head(pairs).tag)
             rest == RunPairs_stopping(op, r.db, rt, Tail(pairs))
         IN  IF r.res # "Ok" THEN [db |-> r.db, results |-> <<r.res>>]
             ELSE [db |-> rest.db, results |-> <<r.res>> \o rest.results]

\* main (Commands::Add / Commands::Remove): the loops; an error is printed
\* and the next pair is taken.
RECURSIVE RunPairs(_, _, _, _)
RunPairs(op, db, rt, pairs) ==
    IF pairs = <<>> THEN [db |-> db, results |-> <<>>]
    ELSE LET r == LibCall(op, db, rt, Head(pairs).path, Head(pairs).tag)
             rest == RunPairs(op, r.db, rt, Tail(pairs))
         IN  [db |-> rest.db, results |-> <<r.res>> \o rest.results]

\* main (Commands::CreateTag): create_tag for each name, errors printed.
RECURSIVE RunCreate(_, _)
RunCreate(db, names) ==
    IF names = <<>> THEN [db |-> db, results |-> <<>>]
    ELSE LET r == create_tag(db, Head(names))
             rest == RunCreate(r.db, Tail(names))
         IN  [db |-> rest.db, results |-> <<r.res>> \o rest.results]

\* Every sequence over S of at most n elements.
SeqsUpTo(S, n) == UNION {[1..k -> S] : k \in 0..n}

\* Those of them that name no element twice.
DistinctSeqs(S, n) ==
    {q \in SeqsUpTo(S, n) : \A i, j \in 1..Len(q) : i # j => q[i] # q[j]}

\* A command ran to its end: the tables it left, what it printed.
Exited(c, r) ==
    /\ tags' = r.db.tags
    /\ media' = r.db.media
    /\ media_tags' = r.db.media_tags
    /\ call' = c
    /\ result' = r.results
    /\ pre' = Now
    /\ repeat' = FALSE
    /\ Cardinality(r.db.media) <= MaxMedia

\* The arguments a command may be given.
TagArgs == DistinctSeqs(TagNames, MaxArgs)
Args == DistinctSeqs(ArgPool, MaxArgs)

\* main: the store is opened at the database file, then the command runs;
\* print_error_and_exit when it cannot be opened.
Opened(c, media_tag, ran) ==
    /\ Idle
    /\ Exited(c, IF media_tag.res = "Ok" THEN ran
                 ELSE [db |-> media_tag.db, results |-> <<media_tag.res>>])
    /\ root' = IF media_tag.res = "Ok" THEN media_tag.root ELSE root
    /\ UNCHANGED <<pc, wl, rpc, rl, snap>>

\* The loops of a command on an open store.
RunCommand(op, media_tag, parameters) ==
    LET args == parse_args(parameters)
    IN  RunPairs(op, media_tag.db, media_tag.root, Pairs(args.paths, args.tags))

CmdCreateTag ==
    \E names \in TagArgs :
        LET media_tag == new(Now, DbPath)
        IN  Opened([op |-> "create-tag", parameters |-> names], media_tag,
                   RunCreate(media_tag.db, names))

CmdAdd ==
    \E parameters \in Args :
        LET media_tag == new(Now, DbPath)
        IN  Opened([op |-> "add", parameters |-> parameters], media_tag,
                   RunCommand("add", media_tag, parameters))

CmdRemove ==
    \E parameters \in Args :
        LET media_tag == new(Now, DbPath)
        IN  Opened([op |-> "remove", parameters |-> parameters], media_tag,
                   RunCommand("remove", media_tag, parameters))

\* The locations a client opens a store at: the database file, absolute and
\* relative to Cwd; "/" and "", which have no parent; a file in a directory
\* that does not exist; a file under a plain file.
Locations ==
    {DbPath,
     Path(FALSE, <<"..", ".media_tag.db">>),
     Path(TRUE, <<>>),
     Path(FALSE, <<>>),
     Path(TRUE, <<"r", "x", ".media_tag.db">>),
     Path(TRUE, <<"r", "a", ".media_tag.db">>)}

\* MediaTag::new at a location; the client holds the handle it returns.
Open ==
    \E location \in Locations :
        LET media_tag == new(Now, location)
        IN  Opened([op |-> "open", path |-> location], media_tag,
                   [db |-> media_tag.db, results |-> <<"Ok">>])

NextCli == CmdCreateTag \/ CmdAdd \/ CmdRemove \/ Open

SpecCli == Init /\ [][NextCli]_vars

-----------------------------------------------------------------------------
(* The search of the command line, over a loaded MediaTags value *)

\* The has_tag closure: some tag id of the medium has the name query_tag
\* in the snapshot's map; an id the map does not hold matches nothing.
has_tag(data, medium, query_tag) ==
    \E k \in 1..Len(medium.tags) :
        LET tag_id == medium.tags[k]
        IN  IF tag_id \in DOMAIN data.tags
            THEN data.tags[tag_id] = query_tag
            ELSE FALSE

\* matches_positive without the case of no queries under --any.
matches_positive_any_unguarded(data, medium, any, queries) ==
    IF any
    THEN \E i \in 1..Len(queries) : has_tag(data, medium, queries[i])
    ELSE \A i \in 1..Len(queries) : has_tag(data, medium, queries[i])

\* matches_positive of the filter closure
matches_positive(data, medium, any, queries) ==
    IF any
    THEN IF queries = <<>>
         THEN TRUE
         ELSE \E i \in 1..Len(queries) : has_tag(data, medium, queries[i])
    ELSE \A i \in 1..Len(queries) : has_tag(data, medium, queries[i])

\* matches_negative of the filter closure
matches_negative(data, medium, exclude) ==
    \E i \in 1..Len(exclude) : has_tag(data, medium, exclude[i])

\* main (Commands::Search): the media the filter keeps, in the order of
\* media_tag_data.media.
search(data, any, queries, exclude) ==
    SelectSeq(data.media,
              LAMBDA medium : /\ matches_positive(data, medium, any, queries)
                              /\ ~matches_negative(data, medium, exclude))

\* The tag lists of a medium of a snapshot: ids 1 and 2 have names, id 3 is
\* one the snapshot's map does not hold (a tag created between the two
\* statements of load_media_tag).
SnapTagLists == { <<>>, <<1>>, <<2>>, <<1, 2>>, <<3>>, <<1, 3>> }

\* The snapshots given to the search.
SnapInputs ==
    { [tags |-> <<"x", "y">>,
       media |-> [i \in DOMAIN f |->
                     [id |-> i, path |-> join(<<"r">>, <<ToString(i)>>), tags |-> f[i]]],
       during |-> NoLocals] : f \in SeqsUpTo(SnapTagLists, MaxSnapMedia) }

\* The tag names given to the search.
QueryNames == {"x", "y"}

InitMatch ==
    /\ root = new_root(DbPath).val
    /\ tags = {}
    /\ media = {}
    /\ media_tags = EmptyBag
    /\ call = [op |-> "new", path |-> DbPath, name |-> ""]
    /\ result = "Ok"
    /\ pre = Db({}, {}, EmptyBag)
    /\ repeat = FALSE
    /\ pc = "idle"
    /\ wl = NoLocals
    /\ rpc = "idle"
    /\ rl = <<>>
    /\ snap \in SnapInputs

\* The search command: one process, one search over what it loaded.
Search ==
    \E any \in BOOLEAN, queries \in SeqsUpTo(QueryNames, MaxQuery),
       exclude \in SeqsUpTo(QueryNames, MaxQuery) :
        /\ call.op = "new"
        /\ call' = [op |-> "search", any |-> any, queries |-> queries,
                    exclude |-> exclude]
        /\ result' = search(snap, any, queries, exclude)
        /\ UNCHANGED <<root, tags, media, media_tags, pre, repeat, pc, wl, rpc, rl, snap>>

NextMatch == Search

SpecMatch == InitMatch /\ [][NextMatch]_vars

-----------------------------------------------------------------------------
(* What the properties speak of *)

\* The root-relative string of the last call's path, when it has one.
CallStr == resolve_path_to_db_string(root, call.path)

\* The path of the last call exists, lies in root and has a text.
CallInsideRoot == call.op \in {"add_tag", "remove_tag"} /\ CallStr.ok

HasTag(db, name) == \E t \in db.tags : t.name = name

HasMedium(db, path_str) == \E m \in db.media : m.path = path_str

\* The medium of path_str carries the tag called name.
Associated(db, path_str, name) ==
    \E m \in db.media, t \in db.tags :
        /\ m.path = path_str
        /\ t.name = name
        /\ BagIn([media_id |-> m.id, tag_id |-> t.id], db.media_tags)

\* p names something below base, or base itself.
IsUnder(p, base) == \E k \in 0..Len(p) : SubSeq(p, 1, k) = base

\* The last call's path exists and its canonical form is not under root.
CallOutsideRoot ==
    /\ call.op \in {"add_tag", "remove_tag"}
    /\ canonicalize(call.path).ok
    /\ ~IsUnder(canonicalize(call.path).val, root)

\* A stored path names something strictly below root: it is not empty, it
\* is relative, and joined onto root it leads to a longer path under root.
StrictlyInside(path_str) ==
    /\ path_str # <<>>
    /\ Head(path_str) # "/"
    /\ Walk(root, SplitOn(path_str, "/")).ok
    /\ IsUnder(Walk(root, SplitOn(path_str, "/")).val, root)
    /\ Walk(root, SplitOn(path_str, "/")).val # root

-----------------------------------------------------------------------------
(* C1 *)

\* C1: add_tag with a path inside root and a tag name that names no tag
\* fails with TagDoesNotExist and leaves tags, media and media_tags as they
\* were: no Medium row is created.
C1_AttachUnknownTagChangesNothing ==
    (call.op = "add_tag" /\ CallInsideRoot /\ ~HasTag(pre, call.name))
        => (result = "TagDoesNotExist" /\ Now = pre)

-----------------------------------------------------------------------------
(* C2 *)

\* The names the snapshot gives the tag ids of its medium i.
SnapNames(i) ==
    {snap.tags[snap.media[i].tags[j]] :
        j \in {k \in 1..Len(snap.media[i].tags) : snap.media[i].tags[k] \in DOMAIN snap.tags}}

\* C2: a snapshot loaded while an add_tag stands between creating its
\* Medium row and inserting its association never shows that new Medium row
\* without the association (the tag being one the snapshot knows).
C2_ReaderNeverSeesNewMediumUntagged ==
    \A i \in 1..Len(snap.media) :
        (/\ snap.during.created
         /\ snap.media[i].id = snap.during.medium_id
         /\ \E t \in DOMAIN snap.tags : snap.tags[t] = snap.during.tag_name)
            => snap.during.tag_name \in SnapNames(i)

-----------------------------------------------------------------------------
(* C3 *)

\* The last call is a remove_tag of a pair that was not associated.
DetachedAbsentPair ==
    /\ call.op = "remove_tag"
    /\ ~(CallStr.ok /\ Associated(pre, CallStr.val, call.name))

\* C3 as stated, for the paths inside root: remove_tag of a pair (path,
\* tag) that is not associated returns success and leaves tags, media and
\* media_tags as they were.
C3_DetachAbsentPairSucceeds ==
    (DetachedAbsentPair /\ CallInsideRoot) => (result = "Ok" /\ Now = pre)

\* C3 as amended: remove_tag of a pair that is not associated never changes
\* tags, media or media_tags; it returns success exactly when the path
\* resolves inside root, has a Medium row and the tag exists.  It fails
\* with the error of the path's resolution when there is one, else with
\* FileDoesNotExist when the path has no Medium row, else with
\* TagDoesNotExist when the tag is unknown.
C3_DetachAbsentPairChangesNothing ==
    DetachedAbsentPair =>
        /\ Now = pre
        /\ result = IF ~canonicalize(call.path).ok THEN "IoError"
                    ELSE IF CallOutsideRoot THEN "StripPrefixError"
                    ELSE IF ~CallStr.ok THEN "InvalidPathEncoding"
                    ELSE IF ~HasMedium(pre, CallStr.val) THEN "FileDoesNotExist"
                    ELSE IF ~HasTag(pre, call.name) THEN "TagDoesNotExist"
                    ELSE "Ok"

\* A remove_tag of an absent pair returned success although the medium
\* carries another tag.
C3_Witness ==
    /\ DetachedAbsentPair
    /\ result = "Ok"
    /\ \E n \in TagNames : Associated(pre, CallStr.val, n)

-----------------------------------------------------------------------------
(* C4 *)

\* C4: add_tag of a path inside root with an existing tag succeeds, and the
\* same add_tag once more succeeds and leaves tags, media (the one row of
\* the path, with its id) and media_tags exactly as the first left them.
C4_AttachIdempotent ==
    /\ (call.op = "add_tag" /\ CallInsideRoot /\ HasTag(pre, call.name))
           => result = "Ok"
    /\ (call.op = "add_tag" /\ repeat)
           => (result = "Ok" /\ Now = pre)

\* The same successful add_tag was made twice in a row.
C4_Witness ==
    /\ call.op = "add_tag"
    /\ repeat
    /\ result = "Ok"
    /\ Associated(Now, CallStr.val, call.name)

-----------------------------------------------------------------------------
(* C5 *)

\* C5: create_tag of a name that exists fails with TagAlreadyExists and
\* changes nothing; of a new name it succeeds and adds exactly one row with
\* that name and an id no tag had, and changes no other row of any table.
C5_CreateTagInsertUnique ==
    call.op = "create_tag" =>
        IF HasTag(pre, call.name)
        THEN result = "TagAlreadyExists" /\ Now = pre
        ELSE /\ result = "Ok"
             /\ media = pre.media
             /\ media_tags = pre.media_tags
             /\ pre.tags \subseteq tags
             /\ Cardinality(tags \ pre.tags) = 1
             /\ \A t \in tags \ pre.tags :
                    /\ t.name = call.name
                    /\ \A old \in pre.tags : old.id # t.id

\* create_tag failed on a name that exists, in a store of two tags.
C5_Witness ==
    /\ call.op = "create_tag"
    /\ result = "TagAlreadyExists"
    /\ Cardinality(tags) = 2

-----------------------------------------------------------------------------
(* C6 *)

\* C6, in the states a successful call leaves: the stored path of every
\* Medium names something strictly below root, never root itself, never a
\* place outside it.
C6_MediaStrictlyInsideRoot ==
    result = "Ok" => \A m \in media : StrictlyInside(m.path)

-----------------------------------------------------------------------------
(* C7 *)

\* C7: every row of media_tags refers to a row of media and a row of tags,
\* and no pair is stored more than once.
C7_ReferentialIntegrity ==
    \A row \in BagToSet(media_tags) :
        /\ \E m \in media : m.id = row.media_id
        /\ \E t \in tags : t.id = row.tag_id
        /\ CopiesIn(row, media_tags) = 1

\* After an add_tag of a pair that was already stored, beside other pairs.
C7_Witness ==
    /\ call.op = "add_tag"
    /\ result = "Ok"
    /\ Associated(pre, CallStr.val, call.name)
    /\ Cardinality(BagToSet(media_tags)) >= 2

-----------------------------------------------------------------------------
(* C8 *)

\* C8: no two rows of tags have the same name, no two rows of media the
\* same path, and add_tag on a path that has a Medium row adds no row.
C8_Uniqueness ==
    /\ \A a, b \in tags : a.name = b.name => a = b
    /\ \A a, b \in media : a.path = b.path => a = b
    /\ (call.op = "add_tag" /\ CallInsideRoot /\ HasMedium(pre, CallStr.val))
           => media = pre.media

\* add_tag reached a path that had a Medium row, in a store of two media
\* and two tags.
C8_Witness ==
    /\ call.op = "add_tag"
    /\ CallInsideRoot
    /\ HasMedium(pre, CallStr.val)
    /\ Cardinality(media) = 2
    /\ Cardinality(tags) = 2

-----------------------------------------------------------------------------
(* C9 *)

\* C9: add_tag and remove_tag of an existing path whose canonical form is
\* not under root fail with StripPrefixError, whether the tag exists or
\* not, and change nothing.
C9_OutsideRootRejected ==
    CallOutsideRoot => (result = "StripPrefixError" /\ Now = pre)

\* A link inside root that leads outside it was rejected, the tag existing
\* and the store holding a medium.
C9_Witness ==
    /\ CallOutsideRoot
    /\ call.path = Path(TRUE, <<"r", "l">>)
    /\ HasTag(pre, call.name)
    /\ media # {}
    /\ result = "StripPrefixError"

-----------------------------------------------------------------------------
(* C10 *)

\* C10: remove_tag of a path inside root that has no Medium row fails with
\* FileDoesNotExist and changes nothing: it creates no Medium.
C10_DetachUnknownMedium ==
    (call.op = "remove_tag" /\ CallInsideRoot /\ ~HasMedium(pre, CallStr.val))
        => (result = "FileDoesNotExist" /\ Now = pre)

\* remove_tag failed for a path without a Medium row, the tag existing and
\* another path having a Medium row.
C10_Witness ==
    /\ call.op = "remove_tag"
    /\ CallInsideRoot
    /\ ~HasMedium(pre, CallStr.val)
    /\ HasTag(pre, call.name)
    /\ media # {}
    /\ result = "FileDoesNotExist"

-----------------------------------------------------------------------------
(* C11 *)

\* The last call is a remove_tag of a path inside root with a tag name that
\* named no tag.
DetachedUnknownTag ==
    /\ call.op = "remove_tag"
    /\ CallInsideRoot
    /\ ~HasTag(pre, call.name)

\* C11 as stated: remove_tag of a path inside root with a tag name that
\* names no tag fails with TagDoesNotExist and changes nothing.
C11_DetachUnknownTagFails ==
    DetachedUnknownTag => (result = "TagDoesNotExist" /\ Now = pre)

\* C11 as amended: remove_tag of a path inside root with a tag name that
\* names no tag changes nothing and creates no Medium row; it fails with
\* TagDoesNotExist when the path has a Medium row and with FileDoesNotExist
\* when it has none.
C11_DetachUnknownTagChangesNothing ==
    DetachedUnknownTag =>
        /\ Now = pre
        /\ result = IF HasMedium(pre, CallStr.val) THEN "TagDoesNotExist"
                    ELSE "FileDoesNotExist"

\* remove_tag failed on an unknown tag for a medium that carries a tag.
C11_Witness ==
    /\ DetachedUnknownTag
    /\ result = "TagDoesNotExist"
    /\ \E n \in TagNames : Associated(pre, CallStr.val, n)

-----------------------------------------------------------------------------
(* C12 *)

Range(f) == {f[i] : i \in DOMAIN f}

\* names(m): the names the snapshot's tag map gives for m's attached ids.
NamesOf(data, m) == {data.tags[id] : id \in Range(m.tags) \cap DOMAIN data.tags}

\* positive(m) AND NOT negative(m), over sets of names.
Wanted(data, m, any, include, exclude) ==
    /\ IF any THEN include = {} \/ include \cap NamesOf(data, m) # {}
              ELSE include \subseteq NamesOf(data, m)
    /\ exclude \cap NamesOf(data, m) = {}

\* The wanted media among the first n of the snapshot, in its order.
RECURSIVE WantedUpTo(_, _, _, _, _)
WantedUpTo(data, n, any, include, exclude) ==
    IF n = 0 THEN <<>>
    ELSE WantedUpTo(data, n - 1, any, include, exclude)
         \o (IF Wanted(data, data.media[n], any, include, exclude)
             THEN <<data.media[n]>> ELSE <<>>)

\* media A:{x,y}, B:{y}, C:{}
ExampleMedia ==
    << [id |-> 1, path |-> <<"r", "1">>, tags |-> <<1, 2>>],
       [id |-> 2, path |-> <<"r", "2">>, tags |-> <<2>>],
       [id |-> 3, path |-> <<"r", "3">>, tags |-> <<>>] >>

Searched(any, queries, exclude) ==
    call = [op |-> "search", any |-> any, queries |-> queries, exclude |-> exclude]

\* C12: the search returns, in the snapshot's order, exactly the media m
\* with positive(m) and not negative(m); an id with no name matches
\* nothing.  With A:{x,y}, B:{y}, C:{}: ALL {x,y} gives A; ANY {x} gives A;
\* ALL {} excluding {y} gives C; ANY {} excluding {} gives A, B, C.
C12_SearchSelectsWanted ==
    call.op = "search" =>
        /\ result = WantedUpTo(snap, Len(snap.media), call.any,
                               Range(call.queries), Range(call.exclude))
        /\ snap.media = ExampleMedia =>
            /\ Searched(FALSE, <<"x", "y">>, <<>>) => result = <<ExampleMedia[1]>>
            /\ Searched(TRUE, <<"x">>, <<>>) => result = <<ExampleMedia[1]>>
            /\ Searched(FALSE, <<>>, <<"y">>) => result = <<ExampleMedia[3]>>
            /\ Searched(TRUE, <<>>, <<>>) => result = ExampleMedia

\* The search with --any and no query kept a medium whose only tag id has
\* no name, and dropped the media carrying the excluded tag.
C12_Witness ==
    /\ call.op = "search"
    /\ call.any /\ call.queries = <<>> /\ call.exclude = <<"y">>
    /\ Len(snap.media) = 3
    /\ snap.media[1].tags = <<1, 2>>
    /\ snap.media[2].tags = <<3>>
    /\ snap.media[3].tags = <<2>>
    /\ result = <<snap.media[2]>>

-----------------------------------------------------------------------------
(* C13 *)

\* The last call is an add_tag of a path inside root with a tag that existed.
AttachedKnownTag ==
    /\ call.op = "add_tag"
    /\ CallInsideRoot
    /\ HasTag(pre, call.name)

\* The last call is that add_tag on a store that held the one tag and
\* nothing else.
AttachedOnFreshStore ==
    /\ AttachedKnownTag
    /\ Cardinality(pre.tags) = 1
    /\ pre.media = {}
    /\ pre.media_tags = EmptyBag

\* C13: add_tag of a path inside root with an existing tag succeeds and
\* leaves the pair associated; it adds the Medium row of the path only if
\* there was none and changes no tag.  On a store holding just the tag it
\* leaves one Tag, one Medium and one association, and load_media_tag then
\* shows the one medium, at the path's canonical place, with the tag.
C13_AttachPostcondition ==
    /\ AttachedKnownTag =>
        /\ result = "Ok"
        /\ Associated(Now, CallStr.val, call.name)
        /\ tags = pre.tags
        /\ pre.media \subseteq media
        /\ IF HasMedium(pre, CallStr.val)
           THEN media = pre.media
           ELSE /\ Cardinality(media \ pre.media) = 1
                /\ \A m \in media \ pre.media : m.path = CallStr.val
    /\ AttachedOnFreshStore =>
        /\ Cardinality(tags) = 1
        /\ Cardinality(media) = 1
        /\ BagCardinality(media_tags) = 1
        /\ LET data == load_media_tag(Now, root)
           IN  /\ Len(data.media) = 1
               /\ data.media[1].path = canonicalize(call.path).val
               /\ Len(data.media[1].tags) = 1
               /\ NamesOf(data, data.media[1]) = {call.name}

\* add_tag through a link, on a store holding just the tag, succeeded.
C13_Witness ==
    /\ AttachedOnFreshStore
    /\ call.path = Path(TRUE, <<"r", "s">>)
    /\ result = "Ok"

-----------------------------------------------------------------------------
(* C14 *)

\* The media of a loaded MediaTags value that have the id of the Medium
\* row stored for path_str.
LoadedFor(data, path_str) ==
    {data.media[i] : i \in {k \in 1..Len(data.media) :
        \E m \in media : m.path = path_str /\ m.id = data.media[k].id}}

\* C14: after add_tag stored a path P (given absolute, relative to the
\* working directory or through links), the path load_media_tag gives for
\* its medium, the stored string joined onto root, has the canonical target
\* of P; and every path with P's canonical target resolves to the string
\* stored for P.
C14_PathRoundTrip ==
    (call.op = "add_tag" /\ result = "Ok") =>
        /\ LoadedFor(load_media_tag(Now, root), CallStr.val) # {}
        /\ \A m \in LoadedFor(load_media_tag(Now, root), CallStr.val) :
               canonicalize(Path(TRUE, m.path)) = canonicalize(call.path)
        /\ \A other \in InputPaths :
               canonicalize(other) = canonicalize(call.path)
                   => resolve_path_to_db_string(root, other) = CallStr

\* add_tag stored the file d/b of root, reached through a link that lies
\* outside root, beside another medium.
C14_Witness ==
    /\ call.op = "add_tag"
    /\ result = "Ok"
    /\ call.path = Path(TRUE, <<"o", "k">>)
    /\ CallStr.val = <<"d", "/", "b">>
    /\ Cardinality(media) = 2

-----------------------------------------------------------------------------
(* C15 *)

\* The texts stored for the paths of an argument list that lie in root.
InsideRoot(parameters) ==
    {resolve_path_to_db_string(root, parse_args(parameters).paths[i]).val :
        i \in {k \in 1..Len(parse_args(parameters).paths) :
            resolve_path_to_db_string(root, parse_args(parameters).paths[k]).ok}}

\* C15: add and remove take the arguments that exist as paths for paths and
\* the others for tags, and call the library once for every pair of a path
\* and a tag, whatever the calls before returned; after add every pair of a
\* path in root and a tag that exists is associated, after remove every such
\* pair whose medium was stored is not.
C15_BatchCoversEveryPair ==
    (call.op \in {"add", "remove"}) =>
        LET args == parse_args(call.parameters)
        IN  /\ \A a \in Range(call.parameters) :
                   IF exists(PathBufFrom(a))
                   THEN PathBufFrom(a) \in Range(args.paths) /\ a \notin Range(args.tags)
                   ELSE a \in Range(args.tags) /\ PathBufFrom(a) \notin Range(args.paths)
            /\ Len(args.paths) + Len(args.tags) = Len(call.parameters)
            /\ Len(result) = Len(args.paths) * Len(args.tags)
            /\ \A path_str \in InsideRoot(call.parameters), t \in Range(args.tags) :
                   HasTag(pre, t) =>
                       IF call.op = "add" THEN Associated(Now, path_str, t)
                       ELSE HasMedium(pre, path_str) => ~Associated(Now, path_str, t)

\* add was given two paths and two tags; the pairs of the path outside root
\* failed, and so did the pair of an unknown tag, before the last pair, of
\* the file in root and the tag x, was associated.
C15_Witness ==
    /\ call.op = "add"
    /\ call.parameters = <<"/o/c", "b", "", "x">>
    /\ result = <<"StripPrefixError", "StripPrefixError", "TagDoesNotExist", "Ok">>
    /\ ~Associated(pre, <<"d", "/", "b">>, "x")
    /\ Associated(Now, <<"d", "/", "b">>, "x")

\* remove took the tag x off the file in root after the pair before it
\* failed.
C15_WitnessRemove ==
    /\ call.op = "remove"
    /\ call.parameters = <<"/o/c", "b", "x">>
    /\ result = <<"StripPrefixError", "Ok">>
    /\ Associated(pre, <<"d", "/", "b">>, "x")
    /\ ~Associated(Now, <<"d", "/", "b">>, "x")

-----------------------------------------------------------------------------
(* C16 *)

\* The same library calls on the one handle the store was first opened
\* with, without opening again.
OnOneHandle(db, c) ==
    IF c.op = "create-tag" THEN RunCreate(db, c.parameters)
    ELSE RunPairs(c.op, db, new_root(DbPath).val,
                  Pairs(parse_args(c.parameters).paths, parse_args(c.parameters).tags))

\* C16: opening the store that is there succeeds and leaves every tag,
\* medium and association as it was, so a command that opens the store for
\* itself leaves the state, and prints the results, that its calls give on
\* the handle of the first open.
C16_OpenKeepsStore ==
    /\ (call.op \in {"create-tag", "add", "remove"}) =>
           /\ new(pre, DbPath).res = "Ok"
           /\ new(pre, DbPath).db = pre
           /\ new(pre, DbPath).root = new_root(DbPath).val
           /\ Now = OnOneHandle(pre, call).db
           /\ result = OnOneHandle(pre, call).results
    /\ (call.op = "open" /\ result = <<"Ok">>) => Now = pre

\* A third command ran on a store that held a tag and an association made
\* by two commands before it, each with its own handle.
C16_Witness ==
    /\ call.op = "remove"
    /\ call.parameters = <<"b", "x">>
    /\ result = <<"Ok">>
    /\ Associated(pre, <<"d", "/", "b">>, "x")
    /\ HasTag(Now, "x")
    /\ HasMedium(Now, <<"d", "/", "b">>)

-----------------------------------------------------------------------------
(* C17 *)

\* C17: MediaTag::new at a location whose parent() is none fails with
\* CouldNotDetermineMediaTagPath, gives no handle and leaves the tables of
\* the store as they were.
C17_NoParentFails ==
    (call.op = "open" /\ ~parent(call.path).ok) =>
        /\ result = <<"CouldNotDetermineMediaTagPath">>
        /\ "root" \notin DOMAIN new(pre, call.path)
        /\ Now = pre

\* "/" was given as the location of a store while the store of root held a
\* tag.
C17_Witness ==
    /\ call.op = "open"
    /\ call.path = Path(TRUE, <<>>)
    /\ result = <<"CouldNotDetermineMediaTagPath">>
    /\ tags # {}

-----------------------------------------------------------------------------
(* C18 *)

\* The media_tags row of the pair the last add_tag or remove_tag named, if
\* its medium and its tag are stored.
OwnPair ==
    IF CallInsideRoot
    THEN {[media_id |-> m.id, tag_id |-> t.id] :
            m \in {r \in media : r.path = CallStr.val},
            t \in {r \in tags : r.name = call.name}}
    ELSE {}

\* C18: no call loses a tags or media row or changes the id, name or path
\* of one; remove_tag that returns Ok leaves its own pair not associated
\* and add_tag that returns Ok leaves it associated once; every other pair,
\* and the own pair of a call that failed, is associated as often as before.
C18_RowsPersist ==
    /\ pre.tags \subseteq tags
    /\ pre.media \subseteq media
    /\ \A row \in BagToSet(pre.media_tags) \cup BagToSet(media_tags) :
           IF row \in OwnPair /\ result = "Ok"
           THEN CopiesIn(row, media_tags) = IF call.op = "add_tag" THEN 1 ELSE 0
           ELSE CopiesIn(row, media_tags) = CopiesIn(row, pre.media_tags)

\* remove_tag took one association of three away; both media and both tags
\* are stored as before.
C18_Witness ==
    /\ call.op = "remove_tag"
    /\ result = "Ok"
    /\ BagCardinality(pre.media_tags) = 3
    /\ BagCardinality(media_tags) = 2
    /\ Cardinality(media) = 2
    /\ Cardinality(tags) = 2

-----------------------------------------------------------------------------
(* C19 *)

\* The tag ids the media_tags rows give the medium of id.
TagIdsOf(id) == {row.tag_id : row \in {r \in BagToSet(media_tags) : r.media_id = id}}

\* C19: load_media_tag returns the id and name of every tags row as its tag
\* map, and one Medium for every media row, also for one with no tag, at
\* the row's path under root, with the tag ids of its media_tags rows, each
\* once; get_tags returns the tags rows; neither changes a table.
C19_SnapshotFaithful ==
    /\ (call.op = "load_media_tag") =>
           /\ Now = pre
           /\ DOMAIN result.tags = {t.id : t \in tags}
           /\ \A t \in tags : result.tags[t.id] = t.name
           /\ Len(result.media) = Cardinality(media)
           /\ \A m \in media : \E i \in 1..Len(result.media) :
                  /\ result.media[i].id = m.id
                  /\ result.media[i].path = join(root, m.path)
                  /\ Range(result.media[i].tags) = TagIdsOf(m.id)
                  /\ Len(result.media[i].tags) = Cardinality(TagIdsOf(m.id))
    /\ (call.op = "get_tags") => (Now = pre /\ result = tags)

\* load_media_tag returned two media, one with both tags and one with none.
C19_Witness ==
    /\ call.op = "load_media_tag"
    /\ Len(result.media) = 2
    /\ \E i, j \in 1..2 :
           /\ result.media[i].tags = <<>>
           /\ Len(result.media[j].tags) = 2
    /\ Cardinality(DOMAIN result.tags) = 2

====
